---- MODULE Spec2Model ----
(***************************************************************************)
(* Baseball Performance Widget (src/widget.py): a Streamlit script that    *)
(* fetches season statistics, flattens and normalises them into three      *)
(* tables, filters/sorts them by the user's selections and renders a PDF.  *)
(*                                                                         *)
(* Three specifications share the operators that model the code:           *)
(*   SpecExtract : fetch + the three get_*_stats extractors on bounded     *)
(*                 server payloads and transport outcomes;                 *)
(*   SpecTable   : clean_*_df, the selectors and the filter/sort block on  *)
(*                 bounded record lists, one category at a time;           *)
(*   Spec        : the whole script, run once per Streamlit event.         *)
(***************************************************************************)
EXTENDS Integers, Sequences, FiniteSets, TLC

VARIABLES
    \* ---- SpecExtract
    x_server,      \* the JSON body the server holds for the endpoint
    x_call,        \* which extractor ran last ("none" before the first call)
    x_net,         \* transport outcome of the request that call made
    x_fetched,     \* what fetch() did: returned value / raised exception / printed
    x_result,      \* what the extractor did: returned frame / raised exception
    x_players,     \* get_fielding_stats' local list `players` (before DataFrame)
    \* ---- SpecTable
    t_pc,          \* "records" -> "cleaned" -> "selected" -> "filtered" -> "refiltered"
    t_cat,         \* "batting" | "fielding" | "pitching"
    t_records,     \* the flat records handed to pd.DataFrame
    t_data,        \* the category's canonical table (clean_*_df result)
    t_sel,         \* the selectbox values
    t_filtered,    \* the filtered view
    t_again,       \* the filter/sort block applied to t_filtered once more
    t_exc,         \* uncaught exception ("none" if none)
    \* ---- Spec (the script)
    pc,            \* position in the script: "idle", "load", "selectors", ...
    trigger,       \* the Streamlit event that started the current/last run
    server,        \* [stats, fielding]: the JSON bodies the API serves
    fetches,       \* fetch() outcomes of the current run, in call order
    data,          \* [batting, pitching, fielding] canonical tables
    sel,           \* widget values per category
    filtered,      \* [batting, fielding, pitching] filtered views
    doc,           \* the captions of the document generate_pdf built last
    pdf_built,     \* generate_pdf ran during the current/last run
    exc,           \* uncaught exception of the current/last run ("none" if none)
    runs           \* script runs of the browser session so far

x_vars == <<x_server, x_call, x_net, x_fetched, x_result, x_players>>
t_vars == <<t_pc, t_cat, t_records, t_data, t_sel, t_filtered, t_again, t_exc>>
s_vars == <<pc, trigger, server, fetches, data, sel, filtered, doc, pdf_built, exc, runs>>
vars == <<x_vars, t_vars, s_vars>>

-----------------------------------------------------------------------------
(* Bounds of the model *)

\* longest `player` list / record list drawn for a payload
MaxPlayers == 2
\* most position groups in a fielding payload
MaxGroups == 2
\* most records of a category's table
MaxRows == 3
\* most script runs followed within one browser session
MaxRuns == 3

-----------------------------------------------------------------------------
(* Python / JSON values.  Every value carries its type tag, so that values  *)
(* of different Python types can be compared.                              *)

JNull == [t |-> "null"]
JStr(s) == [t |-> "str", v |-> s]
JNum(n) == [t |-> "num", n |-> n]
JList(s) == [t |-> "list", items |-> s]
JObj(f) == [t |-> "obj", fields |-> f]
\* the float NaN pandas uses as its missing marker
NaN == [t |-> "nan"]
EmptyObj == JObj(<<>>)
EmptyList == JList(<<>>)

\* a call's outcome: it returned `value`, or raised the exception `raised`
Ok(v) == [raised |-> "none", value |-> v]
Raise(e) == [raised |-> e]
Bind(r, F(_)) == IF r.raised # "none" THEN r ELSE F(r.value)

Range(s) == {s[i] : i \in DOMAIN s}

RECURSIVE SeqsUpTo(_, _)
SeqsUpTo(S, n) ==
    IF n = 0 THEN {<<>>}
    ELSE LET shorter == SeqsUpTo(S, n - 1)
         IN  shorter \cup {Append(s, e) : s \in {q \in shorter : Len(q) = n - 1}, e \in S}

\* dict.get(key, default); on a value that is no dict the attribute lookup fails
PyGet(x, key, default) ==
    IF x.t = "obj"
    THEN Ok(IF key \in DOMAIN x.fields THEN x.fields[key] ELSE default)
    ELSE Raise("AttributeError")

-----------------------------------------------------------------------------
(* API setup and fetch *)

SEASON_ID == 34102
BASE_URL == "https://api.pointstreak.com"
StatsEndpoint == "baseball/season/stats/" \o ToString(SEASON_ID) \o "/json"
FieldingEndpoint == "baseball/season/fieldingleaders/" \o ToString(SEASON_ID) \o "/json"

\* What can happen to one GET: a 2xx response with a JSON body, a 2xx response
\* whose body is not JSON, an error status, or no response at all.
NetOutcomes == {"ok", "not_json", "http_404", "http_500", "connection_error"}
NetFailures == NetOutcomes \ {"ok"}

\* fetch(endpoint) when the request meets outcome `net` and the server holds `body`.
\* Only requests.exceptions.HTTPError (raised by raise_for_status) is caught;
\* ConnectionError (requests.get) and JSONDecodeError (response.json) are not.
fetch(endpoint, net, body) ==
    LET url == BASE_URL \o "/" \o endpoint
    IN  CASE net = "connection_error" -> Raise("ConnectionError") @@ [printed |-> <<>>]
          [] net = "http_404" -> Ok(EmptyObj) @@ [printed |-> <<"404 Not Found: " \o url>>]
          [] net = "http_500" -> Ok(EmptyObj) @@ [printed |-> <<"Error fetching " \o url \o ": 500 Server Error">>]
          [] net = "not_json" -> Raise("JSONDecodeError") @@ [printed |-> <<>>]
          [] net = "ok" -> Ok(body) @@ [printed |-> <<>>]

-----------------------------------------------------------------------------
(* pd.DataFrame(...) as the extractors call it *)

\* The order in which the API lists a record's keys.  "position" comes last:
\* that is where get_fielding_stats adds it to a record that lacks it.
WireOrder ==
    <<"playerlinkid", "playerid", "playername", "name", "firstname", "lastname",
      "teamname", "jersey", "games", "avg", "hr", "era", "oavg", "fpct", "gp",
      "$t", "position">>

EmptyFrame == [columns |-> <<>>, rows |-> <<>>]

\* column labels of a frame built from a list of dicts: first appearance
RECURSIVE ColumnsOf(_, _)
ColumnsOf(recs, cols) ==
    IF recs = <<>> THEN cols
    ELSE ColumnsOf(Tail(recs),
                   cols \o SelectSeq(WireOrder,
                                     LAMBDA k : k \in DOMAIN Head(recs).fields
                                                /\ k \notin Range(cols)))

\* a record as a row over `cols`: a key the record lacks is filled with NaN
RowOf(rec, cols) ==
    [c \in Range(cols) |-> IF c \in DOMAIN rec.fields THEN rec.fields[c] ELSE NaN]

FrameOfRecords(recs) ==
    LET cols == ColumnsOf(recs, <<>>)
    IN  [columns |-> cols, rows |-> [i \in DOMAIN recs |-> RowOf(recs[i], cols)]]

\* pd.DataFrame(one dict): the dict is read as column -> values.  With scalar
\* values only there is no index and pandas raises ValueError; a dict-valued
\* field (the {"$t": ...} wrapper) supplies the index, one row per inner key,
\* and the scalars are broadcast over it.
FrameOfMapping(m) ==
    LET f == m.fields
        dicts == {k \in DOMAIN f : f[k].t = "obj"}
        index == SelectSeq(WireOrder, LAMBDA i : \E k \in dicts : i \in DOMAIN f[k].fields)
        cols == SelectSeq(WireOrder, LAMBDA k : k \in DOMAIN f)
    IN  IF DOMAIN f = {} THEN Ok(EmptyFrame)
        ELSE IF dicts = {} THEN Raise("ValueError")
        ELSE Ok([columns |-> cols,
                 rows |-> [i \in DOMAIN index |->
                             [c \in Range(cols) |->
                                IF c \in dicts
                                THEN (IF index[i] \in DOMAIN f[c].fields
                                      THEN f[c].fields[index[i]] ELSE NaN)
                                ELSE f[c]]]])

DataFrame(x) ==
    CASE x.t = "null" -> Ok(EmptyFrame)
      [] x.t = "list" /\ \A i \in DOMAIN x.items : x.items[i].t = "obj" ->
            Ok(FrameOfRecords(x.items))
      [] x.t = "list" ->
            Ok([columns |-> <<"0">>, rows |-> [i \in DOMAIN x.items |-> [c \in {"0"} |-> x.items[i]]]])
      [] x.t = "obj" -> FrameOfMapping(x)
      [] OTHER -> Raise("ValueError")

-----------------------------------------------------------------------------
(* Data retrieval functions *)

\* data.get("stats", {}).get(category, {}).get("player", [])
PlayerPath(body, category) ==
    Bind(PyGet(body, "stats", EmptyObj),
         LAMBDA s : Bind(PyGet(s, category, EmptyObj),
                         LAMBDA c : PyGet(c, "player", EmptyList)))

\* `net` and `body` are the environment of the call: what happens to the request
\* fetch sends, and the JSON the server holds for the endpoint.
get_batting_stats(net, body) ==
    Bind(fetch(StatsEndpoint, net, body),
         LAMBDA d : Bind(PlayerPath(d, "batting"), DataFrame))

get_pitching_stats(net, body) ==
    Bind(fetch(StatsEndpoint, net, body),
         LAMBDA d : Bind(PlayerPath(d, "pitching"), DataFrame))

\* player["position"] = value
SetItem(player, key, value) ==
    JObj([k \in DOMAIN player.fields \cup {key} |->
             IF k = key THEN value ELSE player.fields[k]])

\* the inner loop: every entry of one group's player list gets the group's label
RECURSIVE TagPlayers(_, _, _)
TagPlayers(player_list, label, players) ==
    IF player_list = <<>> THEN Ok(players)
    ELSE IF Head(player_list).t # "obj" THEN Raise("TypeError")
    ELSE TagPlayers(Tail(player_list), label,
                    Append(players, SetItem(Head(player_list), "position", label)))

\* the outer loop over the position groups, accumulating `players`
RECURSIVE CollectGroupsTagFirst(_, _, _)
CollectGroupsTagFirst(groups, players, first) ==
    IF groups = <<>> THEN Ok(players)
    ELSE Bind(PyGet(Head(groups), "player", EmptyList),
              LAMBDA player_list :
                 IF player_list.t = "list"
                 THEN Bind(Bind(PyGet(first, "position", JNull),
                                LAMBDA label : TagPlayers(player_list.items, label, players)),
                           LAMBDA ps : CollectGroupsTagFirst(Tail(groups), ps, first))
                 ELSE CollectGroupsTagFirst(Tail(groups), players, first))

RECURSIVE CollectGroups(_, _)
CollectGroups(groups, players) ==
    IF groups = <<>> THEN Ok(players)
    ELSE Bind(PyGet(Head(groups), "player", EmptyList),
              LAMBDA player_list :
                 IF player_list.t = "list"
                 THEN Bind(Bind(PyGet(Head(groups), "position", JNull),
                                LAMBDA label : TagPlayers(player_list.items, label, players)),
                           LAMBDA ps : CollectGroups(Tail(groups), ps))
                 ELSE CollectGroups(Tail(groups), players))

\* `for position in <value>`: a list yields its items; a dict yields its keys and
\* a string its characters (strings, which have no .get); anything else is not
\* iterable.
IterGroups(p) ==
    CASE p.t = "list" -> CollectGroups(p.items, <<>>)
      [] p.t = "obj" -> IF DOMAIN p.fields = {} THEN Ok(<<>>) ELSE Raise("AttributeError")
      [] p.t = "str" -> IF p.v = "" THEN Ok(<<>>) ELSE Raise("AttributeError")
      [] OTHER -> Raise("TypeError")

\* a plausible slip: every record tagged with the first group's label
fielding_players_first_label(net, body) ==
    Bind(fetch(FieldingEndpoint, net, body),
         LAMBDA d :
            Bind(Bind(PyGet(d, "stats", EmptyObj),
                      LAMBDA s : PyGet(s, "position", EmptyList)),
                 LAMBDA p : IF p.t = "list" /\ p.items # <<>>
                            THEN CollectGroupsTagFirst(p.items, <<>>, p.items[1])
                            ELSE IterGroups(p)))

\* lines 81-88: the list `players` get_fielding_stats builds
fielding_players(net, body) ==
    Bind(fetch(FieldingEndpoint, net, body),
         LAMBDA d :
            Bind(Bind(PyGet(d, "stats", EmptyObj),
                      LAMBDA s : PyGet(s, "position", EmptyList)),
                 IterGroups))

get_fielding_stats(net, body) ==
    Bind(fielding_players(net, body), LAMBDA players : DataFrame(JList(players)))

-----------------------------------------------------------------------------
(* Data cleaning functions *)

\* str.upper() on the column labels that occur; labels outside the table
\* ("PLAYER", "$t", "0") have no lower-case letter and stay as they are
UpperTable ==
    [playerlinkid |-> "PLAYERLINKID", playerid |-> "PLAYERID",
     playername |-> "PLAYERNAME", name |-> "NAME", firstname |-> "FIRSTNAME",
     lastname |-> "LASTNAME", teamname |-> "TEAMNAME", jersey |-> "JERSEY",
     games |-> "GAMES", avg |-> "AVG", hr |-> "HR", era |-> "ERA", oavg |-> "OAVG",
     fpct |-> "FPCT", gp |-> "GP", position |-> "POSITION"]
Upper(col) == IF col \in DOMAIN UpperTable THEN UpperTable[col] ELSE col

\* The numeric strings that occur, with the number each denotes, in thousandths
\* (".345" and "0.345" denote the same number).  Any other string is not a number.
NumericLiterals ==
    (".345" :> 345) @@ ("0.345" :> 345) @@ (".300" :> 300) @@ (".250" :> 250)
    @@ ("3" :> 3000) @@ ("7" :> 7000) @@ ("9" :> 9000) @@ ("4" :> 4000) @@ ("12" :> 12000)
    @@ ("2.10" :> 2100) @@ ("2.1" :> 2100) @@ ("3.75" :> 3750)
    @@ (".987" :> 987) @@ ("0.987" :> 987) @@ ("1.000" :> 1000)

\* pd.to_numeric(series, errors="coerce"), cell by cell: a number stays, a string
\* is parsed, and whatever does not parse (a non-numeric string, None, a dict)
\* becomes NaN
to_numeric_ignore(series) ==
    IF \A i \in DOMAIN series :
          series[i].t \in {"num", "nan"}
          \/ (series[i].t = "str" /\ series[i].v \in DOMAIN NumericLiterals)
    THEN [i \in DOMAIN series |->
            IF series[i].t = "str" THEN JNum(NumericLiterals[series[i].v]) ELSE series[i]]
    ELSE series
to_numeric(series) ==
    [i \in DOMAIN series |->
        CASE series[i].t = "num" -> series[i]
          [] series[i].t = "str" /\ series[i].v \in DOMAIN NumericLiterals ->
                JNum(NumericLiterals[series[i].v])
          [] OTHER -> NaN]

\* df[col]
Column(df, col) == [i \in DOMAIN df.rows |-> df.rows[i][col]]
\* df[col] = series
SetColumn(df, col, series) ==
    [df EXCEPT !.rows = [i \in DOMAIN df.rows |-> [df.rows[i] EXCEPT ![col] = series[i]]]]
\* df.drop(columns=[col for col in names if col in df.columns])
Drop(df, names) ==
    LET keep == SelectSeq(df.columns, LAMBDA c : c \notin names)
    IN  [columns |-> keep,
         rows |-> [i \in DOMAIN df.rows |-> [c \in Range(keep) |-> df.rows[i][c]]]]
\* the frame with column i relabelled to labels[i]
Relabel(df, labels) ==
    [columns |-> labels,
     rows |-> [i \in DOMAIN df.rows |->
                 [c \in Range(labels) |->
                    df.rows[i][df.columns[CHOOSE k \in DOMAIN labels : labels[k] = c]]]]]
\* df.rename(columns=rename_map), then df.columns = [rename_map.get(col, col.upper()) ...]
Rename(df, rename_map) ==
    LET once == [i \in DOMAIN df.columns |->
                    IF df.columns[i] \in DOMAIN rename_map
                    THEN rename_map[df.columns[i]] ELSE df.columns[i]]
        twice == [i \in DOMAIN once |->
                    IF once[i] \in DOMAIN rename_map
                    THEN rename_map[once[i]] ELSE Upper(once[i])]
    IN  Relabel(df, twice)
\* lambda x: x.get("$t") if isinstance(x, dict) else x
Unwrap(x) ==
    IF x.t = "obj" THEN (IF "$t" \in DOMAIN x.fields THEN x.fields["$t"] ELSE JNull) ELSE x
UnwrapTeamname(df) ==
    IF "teamname" \in Range(df.columns)
    THEN SetColumn(df, "teamname",
                   [i \in DOMAIN df.rows |-> Unwrap(df.rows[i]["teamname"])])
    ELSE df
\* for col in numeric_cols: if col in df.columns: df[col] = pd.to_numeric(...)
RECURSIVE CoerceColumns(_, _)
CoerceColumns(df, numeric_cols) ==
    IF numeric_cols = <<>> THEN df
    ELSE CoerceColumns(IF Head(numeric_cols) \in Range(df.columns)
                       THEN SetColumn(df, Head(numeric_cols),
                                      to_numeric(Column(df, Head(numeric_cols))))
                       ELSE df,
                       Tail(numeric_cols))
\* df[[col for col in order if col in df.columns] + [col for col in df.columns if col not in order]]
Reorder(df, order) ==
    LET cols == SelectSeq(order, LAMBDA c : c \in Range(df.columns))
                \o SelectSeq(df.columns, LAMBDA c : c \notin Range(order))
    IN  [df EXCEPT !.columns = cols]

BattingDrop == {"playerlinkid", "playerid", "firstname", "lastname"}
BattingRename ==
    [playername |-> "PLAYER", teamname |-> "TEAM", jersey |-> "JERSEY", position |-> "P"]
BattingNumeric ==
    <<"AVG", "AB", "RUNS", "HITS", "HR", "RBI", "BB", "HP", "SO", "SF", "SB", "DP",
      "BIB", "TRIB", "OBP", "SLG">>
BattingOrder ==
    <<"PLAYER", "JERSEY", "TEAM", "P", "AVG", "AB", "RUNS", "HITS", "HR", "RBI", "BB",
      "HP", "SO", "SF", "SB", "DP">>
clean_batting_df(df) ==
    Reorder(CoerceColumns(Rename(Drop(UnwrapTeamname(df), BattingDrop), BattingRename),
                          BattingNumeric),
            BattingOrder)

PitchingDrop ==
    {"playerlinkid", "playerid", "firstname", "lastname", "oobp", "oslg", "oavg"}
PitchingRename ==
    [playername |-> "PLAYER", teamname |-> "TEAM", jersey |-> "JERSEY", games |-> "G"]
PitchingNumeric ==
    <<"ERA", "G", "GS", "CG", "CGL", "IP", "HITS", "RUNS", "ER", "BB", "SO", "SV", "BSV",
      "WINS", "LOSSES", "BF", "SHO">>
PitchingOrder ==
    <<"PLAYER", "JERSEY", "TEAM", "ERA", "G", "GS", "CG", "CGL", "IP", "HITS", "RUNS",
      "ER", "BB", "SO", "WINS", "LOSSES", "SV", "BSV">>
clean_pitching_df(df) ==
    Reorder(CoerceColumns(Rename(Drop(UnwrapTeamname(df), PitchingDrop), PitchingRename),
                          PitchingNumeric),
            PitchingOrder)

FieldingDrop == {"playerlinkid"}
FieldingRename ==
    [name |-> "PLAYER", jersey |-> "JERSEY", teamname |-> "TEAM", position |-> "P"]
FieldingNumeric == <<"FPCT", "GP", "PO", "A">>
FieldingOrder == <<"PLAYER", "JERSEY", "TEAM", "P", "FPCT", "GP", "PO", "A">>
clean_fielding_df(df) ==
    Reorder(CoerceColumns(Rename(Drop(UnwrapTeamname(df), FieldingDrop), FieldingRename),
                          FieldingNumeric),
            FieldingOrder)

-----------------------------------------------------------------------------
(* Selectors *)

All == JStr("All")

\* sorted(values) compares the values pairwise: strings with strings and numbers
\* with numbers (NaN is a float); any other pair raises TypeError
Sortable(values) ==
    \/ Cardinality(values) < 2
    \/ \A v \in values : v.t = "str"
    \/ \A v \in values : v.t \in {"num", "nan"}

\* ["All"] + sorted(df[col].unique()), or with .dropna() before .unique()
Options(df, col, dropna) ==
    IF col \notin Range(df.columns) THEN Raise("KeyError")
    ELSE LET values == {c \in Range(Column(df, col)) :
                          ~(dropna /\ c.t \in {"nan", "null"})}
         IN  IF Sortable(values) THEN Ok({All} \cup values) ELSE Raise("TypeError")

\* pd.api.types.is_numeric_dtype(df[col]): a column of numbers and NaN only
IsNumericDtype(df, col) ==
    /\ df.rows # <<>>
    /\ \A c \in Range(Column(df, col)) : c.t \in {"num", "nan"}
\* ["None"] + [col for col in df.columns if is_numeric_dtype(df[col])]
SortOptions(df) == {"None"} \cup {c \in Range(df.columns) : IsNumericDtype(df, c)}

\* The selections one category's selectboxes can return, or the exception the
\* first failing selectbox line raises.  Pitching has no position selectbox; its
\* position is kept at "All" and never read.
SelectorChoices(category, df) ==
    Bind(Options(df, "TEAM", FALSE), LAMBDA teams :
    Bind(Options(df, "PLAYER", FALSE), LAMBDA players :
    Bind(IF category = "pitching" THEN Ok({All}) ELSE Options(df, "P", TRUE),
         LAMBDA positions :
            Ok([team : teams, player : players, position : positions,
                sort : SortOptions(df)]))))

-----------------------------------------------------------------------------
(* Filter the datasets *)

\* df[df[col] == value]: the rows whose cell equals the value, in order (NaN
\* equals nothing)
Where(df, col, value) ==
    [df EXCEPT !.rows = SelectSeq(df.rows, LAMBDA r : r[col].t # "nan" /\ r[col] = value)]

\* the orders n rows can be put in
Orderings(n) ==
    {p \in [1..n -> 1..n] : \A i, j \in 1..n : p[i] = p[j] => i = j}

\* df.sort_values(by=by, ascending=False), with pandas' defaults kind="quicksort"
\* and na_position="last".  The rows with a number come first, largest first; the
\* rows with NaN follow in the order they had.  quicksort is not a stable sort:
\* rows with equal numbers may come out in any order, so the result is one of a
\* set.
sort_values_ascending(df, by) ==
    LET n == Len(df.rows)
        key == [i \in 1..n |-> df.rows[i][by]]
    IN  {[df EXCEPT !.rows = [i \in 1..n |-> df.rows[p[i]]]] :
           p \in {q \in Orderings(n) :
                    \A i, j \in 1..n : i < j =>
                       \/ key[q[i]].t = "num" /\ key[q[j]].t = "nan"
                       \/ key[q[i]].t = "num" /\ key[q[j]].t = "num"
                          /\ key[q[i]].n <= key[q[j]].n
                       \/ key[q[i]].t = "nan" /\ key[q[j]].t = "nan" /\ q[i] < q[j]}}
sort_values_nan_reversed(df, by) ==
    LET n == Len(df.rows)
        key == [i \in 1..n |-> df.rows[i][by]]
    IN  {[df EXCEPT !.rows = [i \in 1..n |-> df.rows[p[i]]]] :
           p \in {q \in Orderings(n) :
                    \A i, j \in 1..n : i < j =>
                       \/ key[q[i]].t = "num" /\ key[q[j]].t = "nan"
                       \/ key[q[i]].t = "num" /\ key[q[j]].t = "num"
                          /\ key[q[i]].n >= key[q[j]].n
                       \/ key[q[i]].t = "nan" /\ key[q[j]].t = "nan" /\ q[i] > q[j]}}
sort_values(df, by) ==
    LET n == Len(df.rows)
        key == [i \in 1..n |-> df.rows[i][by]]
    IN  {[df EXCEPT !.rows = [i \in 1..n |-> df.rows[p[i]]]] :
           p \in {q \in Orderings(n) :
                    \A i, j \in 1..n : i < j =>
                       \/ key[q[i]].t = "num" /\ key[q[j]].t = "nan"
                       \/ key[q[i]].t = "num" /\ key[q[j]].t = "num"
                          /\ key[q[i]].n >= key[q[j]].n
                       \/ key[q[i]].t = "nan" /\ key[q[j]].t = "nan" /\ q[i] < q[j]}}

\* lines 275-283; the set of views the block can produce
batting_filtered_no_position(batting_data, batting_team, batting_player, batting_position, batting_sort) ==
    LET by_team == IF batting_team # All
                   THEN Where(batting_data, "TEAM", batting_team) ELSE batting_data
        by_player == IF batting_player # All
                     THEN Where(by_team, "PLAYER", batting_player) ELSE by_team
    IN  IF batting_sort # "None" THEN sort_values(by_player, batting_sort)
        ELSE {by_player}
batting_filtered(batting_data, batting_team, batting_player, batting_position, batting_sort) ==
    LET by_team == IF batting_team # All
                   THEN Where(batting_data, "TEAM", batting_team) ELSE batting_data
        by_player == IF batting_player # All
                     THEN Where(by_team, "PLAYER", batting_player) ELSE by_team
        by_position == IF batting_position # All
                       THEN Where(by_player, "P", batting_position) ELSE by_player
    IN  IF batting_sort # "None" THEN sort_values(by_position, batting_sort)
        ELSE {by_position}

\* lines 285-293
fielding_filtered(fielding_data, fielding_team, fielding_player, fielding_position, fielding_sort) ==
    LET by_team == IF fielding_team # All
                   THEN Where(fielding_data, "TEAM", fielding_team) ELSE fielding_data
        by_player == IF fielding_player # All
                     THEN Where(by_team, "PLAYER", fielding_player) ELSE by_team
        by_position == IF fielding_position # All
                       THEN Where(by_player, "P", fielding_position) ELSE by_player
    IN  IF fielding_sort # "None" THEN sort_values(by_position, fielding_sort)
        ELSE {by_position}

\* lines 295-301
pitching_filtered(pitching_data, pitching_team, pitching_player, pitching_sort) ==
    LET by_team == IF pitching_team # All
                   THEN Where(pitching_data, "TEAM", pitching_team) ELSE pitching_data
        by_player == IF pitching_player # All
                     THEN Where(by_team, "PLAYER", pitching_player) ELSE by_team
    IN  IF pitching_sort # "None" THEN sort_values(by_player, pitching_sort)
        ELSE {by_player}

\* the filter block of a category on table df under selection s
Filtered(category, df, s) ==
    CASE category = "batting" -> batting_filtered(df, s.team, s.player, s.position, s.sort)
      [] category = "fielding" -> fielding_filtered(df, s.team, s.player, s.position, s.sort)
      [] category = "pitching" -> pitching_filtered(df, s.team, s.player, s.sort)

Clean(category, df) ==
    CASE category = "batting" -> clean_batting_df(df)
      [] category = "fielding" -> clean_fielding_df(df)
      [] category = "pitching" -> clean_pitching_df(df)

-----------------------------------------------------------------------------
(* PDF generation *)

\* str(value) as an f-string renders a selectbox value
PyStr(v) ==
    CASE v.t = "str" -> v.v
      [] v.t = "null" -> "None"
      [] OTHER -> "nan"
\* bool(value): an empty string and None are false
Truthy(v) ==
    CASE v.t = "str" -> v.v # ""
      [] v.t = "null" -> FALSE
      [] OTHER -> TRUE
StartsWith(title, prefix) ==
    \/ prefix = "Batting" /\ title = "Batting Stats"
    \/ prefix = "Fielding" /\ title = "Fielding Stats"
    \/ prefix = "Pitching" /\ title = "Pitching Stats"

\* lines 177-204: one section of the document.  batting_position and
\* fielding_position are the module's globals (the position selectboxes' values),
\* which the helper reads.
add_title_and_table(title, df, filters, batting_position, fielding_position) ==
    LET team == filters[1]
        player == filters[2]
        sort == filters[3]
        base == "Filters: Team = " \o PyStr(team) \o ", Player = " \o PyStr(player)
                \o ", Sort = " \o sort
        filter_text ==
            IF StartsWith(title, "Batting") /\ Truthy(batting_position)
            THEN base \o ", Position = " \o PyStr(batting_position)
            ELSE IF StartsWith(title, "Fielding") /\ Truthy(fielding_position)
            THEN base \o ", Position = " \o PyStr(fielding_position)
            ELSE base
    IN  [title |-> title, caption |-> filter_text, table |-> df]

\* lines 146-212: the sections of the document, in order (the header image and
\* the report date line carry no state of the model)
generate_pdf(batting_df, fielding_df, pitching_df, batting_filters, fielding_filters, pitching_filters, batting_position, fielding_position) ==
    <<add_title_and_table("Batting Stats", batting_df, batting_filters,
                          batting_position, fielding_position),
      add_title_and_table("Fielding Stats", fielding_df, fielding_filters,
                          batting_position, fielding_position),
      add_title_and_table("Pitching Stats", pitching_df, pitching_filters,
                          batting_position, fielding_position)>>

-----------------------------------------------------------------------------
(* Payloads the server may hold (SpecExtract) *)

\* marks a key left out of an object under construction
Absent == [t |-> "absent"]
MkObj(f) == JObj([k \in {k \in DOMAIN f : f[k].t # "absent"} |-> f[k]])

bat_smith ==
    JObj([playername |-> JStr("J Smith"), teamname |-> JObj("$t" :> JStr("Hawks")),
          jersey |-> JStr("7"), avg |-> JStr(".345")])
bat_jones ==
    JObj([playername |-> JStr("K Jones"), teamname |-> JStr("Owls"),
          jersey |-> JStr("12"), avg |-> JStr("n/a")])
pit_lee ==
    JObj([playername |-> JStr("R Lee"), teamname |-> JObj("$t" :> JStr("Hawks")),
          games |-> JStr("9"), era |-> JStr("2.10")])
pit_diaz ==
    JObj([playername |-> JStr("M Diaz"), teamname |-> JStr("Owls"),
          games |-> JStr("4"), era |-> JStr("-")])
fld_cruz ==
    JObj([name |-> JStr("A Cruz"), teamname |-> JObj("$t" :> JStr("Hawks")),
          fpct |-> JStr(".987")])
\* an entry that already carries a position key of its own
fld_ford ==
    JObj([name |-> JStr("B Ford"), teamname |-> JStr("Owls"),
          fpct |-> JStr("1.000"), position |-> JStr("DH")])

\* what may stand at <category>.player: nothing, null, one mapping, a list
PlayerVariants(recs) ==
    {Absent, JNull} \cup recs \cup {JList(l) : l \in SeqsUpTo(recs, MaxPlayers)}
CategoryVariants(recs) ==
    {Absent, JNull} \cup {MkObj([player |-> p]) : p \in PlayerVariants(recs)}
StatsBodies ==
    {JNull, EmptyList, EmptyObj, JObj([stats |-> JNull]), JObj([stats |-> EmptyList])}
    \cup {JObj([stats |-> MkObj([batting |-> b, pitching |-> p])]) :
             b \in CategoryVariants({bat_smith, bat_jones}),
             p \in CategoryVariants({pit_lee, pit_diaz})}

\* player lists of a position group: a player is listed once in a group
FieldingLists ==
    {l \in SeqsUpTo({fld_cruz, fld_ford}, MaxPlayers) :
        \A i, j \in DOMAIN l : l[i] = l[j] => i = j}
PositionGroups ==
    {JObj([position |-> l, player |-> JList(e)]) :
        l \in {JStr("C"), JStr("1B")}, e \in FieldingLists}
    \cup {JObj([position |-> JStr("C")]),
          JObj([position |-> JStr("C"), player |-> fld_cruz]),
          JObj([position |-> JStr("1B"), player |-> fld_ford]),
          JObj([player |-> JList(<<fld_cruz>>)])}
FieldingBodies ==
    {JNull, EmptyObj, JObj([stats |-> JNull]),
     JObj([stats |-> JObj([position |-> JObj([position |-> JStr("C"),
                                             player |-> JList(<<fld_cruz>>)])])])}
    \cup {JObj([stats |-> JObj([position |-> JList(g)])]) :
             g \in SeqsUpTo(PositionGroups, MaxGroups)}

DefaultStats == JObj([stats |-> JObj([batting |-> JObj([player |-> JList(<<bat_smith>>)]),
                                     pitching |-> JObj([player |-> JList(<<pit_lee>>)])])])
DefaultFielding ==
    JObj([stats |-> JObj([position |-> JList(<<JObj([position |-> JStr("C"),
                                                    player |-> JList(<<fld_cruz>>)])>>)])])

-----------------------------------------------------------------------------
(* SpecExtract: the extractors called against a server and a network *)

NoCall == Ok(EmptyFrame)
t_idle ==
    /\ t_pc = "off" /\ t_cat = "none" /\ t_records = <<>> /\ t_data = EmptyFrame
    /\ t_sel = <<>> /\ t_filtered = EmptyFrame /\ t_again = EmptyFrame /\ t_exc = "none"
s_idle ==
    /\ pc = "off" /\ trigger = "none" /\ server = <<>> /\ fetches = <<>>
    /\ data = <<>> /\ sel = <<>> /\ filtered = <<>> /\ doc = <<>>
    /\ pdf_built = FALSE /\ exc = "none" /\ runs = 0
x_idle ==
    /\ x_server = <<>> /\ x_call = "off" /\ x_net = "none"
    /\ x_fetched = NoCall /\ x_result = NoCall /\ x_players = Ok(<<>>)

InitExtract ==
    /\ \/ x_server \in {[stats |-> b, fielding |-> DefaultFielding] : b \in StatsBodies}
       \/ x_server \in {[stats |-> DefaultStats, fielding |-> b] : b \in FieldingBodies}
    /\ x_call = "none" /\ x_net = "none"
    /\ x_fetched = NoCall /\ x_result = NoCall /\ x_players = Ok(<<>>)
    /\ t_idle /\ s_idle

GetBatting ==
    \E net \in NetOutcomes :
        /\ x_call' = "batting" /\ x_net' = net
        /\ x_fetched' = fetch(StatsEndpoint, net, x_server.stats)
        /\ x_result' = get_batting_stats(net, x_server.stats)
        /\ x_players' = Ok(<<>>)
        /\ UNCHANGED <<x_server, t_vars, s_vars>>

GetPitching ==
    \E net \in NetOutcomes :
        /\ x_call' = "pitching" /\ x_net' = net
        /\ x_fetched' = fetch(StatsEndpoint, net, x_server.stats)
        /\ x_result' = get_pitching_stats(net, x_server.stats)
        /\ x_players' = Ok(<<>>)
        /\ UNCHANGED <<x_server, t_vars, s_vars>>

GetFielding ==
    \E net \in NetOutcomes :
        /\ x_call' = "fielding" /\ x_net' = net
        /\ x_fetched' = fetch(FieldingEndpoint, net, x_server.fielding)
        /\ x_result' = get_fielding_stats(net, x_server.fielding)
        /\ x_players' = fielding_players(net, x_server.fielding)
        /\ UNCHANGED <<x_server, t_vars, s_vars>>

NextExtract == GetBatting \/ GetPitching \/ GetFielding
SpecExtract == InitExtract /\ [][NextExtract]_vars

-----------------------------------------------------------------------------
(* Claims about fetch and the extractors (SpecExtract) *)

\* C1: fetch never raises: on every failure of the request (connection error,
\* 404, another error status, a body that is not JSON) it prints a diagnostic
\* and returns the empty mapping.
C1_FetchNeverRaises ==
    (x_call \notin {"none", "off"} /\ x_net \in NetFailures)
        => /\ x_fetched.raised = "none"
           /\ x_fetched.value = EmptyObj
           /\ x_fetched.printed # <<>>

\* the value at stats.<category>.player is there and is a list
PathIsList(d, category) ==
    /\ d.t = "obj" /\ "stats" \in DOMAIN d.fields
    /\ d.fields["stats"].t = "obj" /\ category \in DOMAIN d.fields["stats"].fields
    /\ d.fields["stats"].fields[category].t = "obj"
    /\ "player" \in DOMAIN d.fields["stats"].fields[category].fields
    /\ d.fields["stats"].fields[category].fields["player"].t = "list"

\* C5: get_batting_stats / get_pitching_stats never fail: whenever a key of
\* stats.<category>.player is absent from the fetched JSON, or a value on that
\* path has an unexpected type, they return an empty record list.
C5_BattingPitchingFallBackToEmpty ==
    (/\ x_call \in {"batting", "pitching"}
     /\ x_fetched.raised = "none"
     /\ ~PathIsList(x_fetched.value, x_call))
        => /\ x_result.raised = "none"
           /\ x_result.value.rows = <<>>

\* the position groups of a fetched fielding body whose stats.position, when
\* present, is a list of mappings (<<>> when a key of the path is absent)
HasGroups(d) ==
    /\ d.t = "obj"
    /\ "stats" \in DOMAIN d.fields => d.fields["stats"].t = "obj"
    /\ ("stats" \in DOMAIN d.fields /\ "position" \in DOMAIN d.fields["stats"].fields)
          => /\ d.fields["stats"].fields["position"].t = "list"
             /\ \A g \in Range(d.fields["stats"].fields["position"].items) : g.t = "obj"
GroupsOf(d) ==
    IF "stats" \in DOMAIN d.fields /\ "position" \in DOMAIN d.fields["stats"].fields
    THEN d.fields["stats"].fields["position"].items
    ELSE <<>>
\* the entries a group contributes: its player list, or none
EntriesOf(g) ==
    IF "player" \in DOMAIN g.fields /\ g.fields["player"].t = "list"
    THEN g.fields["player"].items ELSE <<>>
LabelOf(g) == IF "position" \in DOMAIN g.fields THEN g.fields["position"] ELSE JNull
RECURSIVE EntriesBefore(_, _)
EntriesBefore(groups, i) ==
    IF i <= 1 THEN 0 ELSE EntriesBefore(groups, i - 1) + Len(EntriesOf(groups[i - 1]))

-----------------------------------------------------------------------------
(* SpecTable: one category's records cleaned, selected on, filtered, and the *)
(* filter block applied once more to its own result                         *)

rb_smith ==
    JObj([playerlinkid |-> JStr("11"), playername |-> JStr("J Smith"),
          teamname |-> JObj("$t" :> JStr("Hawks")), jersey |-> JStr("7"),
          avg |-> JStr(".345"), position |-> JStr("C")])
rb_jones ==
    JObj([playername |-> JStr("K Jones"), teamname |-> JObj("$t" :> JStr("Hawks")),
          jersey |-> JStr("12"), avg |-> JStr("0.345"), position |-> JStr("P")])
rb_lee ==
    JObj([playername |-> JStr("R Lee"), teamname |-> JStr("Owls"),
          jersey |-> JStr("9"), avg |-> JStr(".300")])
rb_smith_owls ==
    JObj([playername |-> JStr("J Smith"), teamname |-> JObj("$t" :> JStr("Owls")),
          jersey |-> JStr("4"), avg |-> JStr("n/a"), position |-> JStr("C")])
rb_diaz ==
    JObj([playername |-> JStr("M Diaz"), teamname |-> JStr("Owls"),
          jersey |-> JStr("3"), position |-> JStr("P")])

rf_cruz ==
    JObj([playerlinkid |-> JStr("21"), name |-> JStr("A Cruz"),
          teamname |-> JObj("$t" :> JStr("Hawks")), fpct |-> JStr(".987"),
          position |-> JStr("C")])
rf_ford ==
    JObj([name |-> JStr("B Ford"), teamname |-> JStr("Owls"),
          fpct |-> JStr("0.987"), position |-> JStr("1B")])
rf_cruz_1b ==
    JObj([name |-> JStr("A Cruz"), teamname |-> JObj("$t" :> JStr("Hawks")),
          fpct |-> JStr("1.000"), position |-> JStr("1B")])
\* from a group without a label: position is None
rf_hale ==
    JObj([name |-> JStr("C Hale"), teamname |-> JStr("Owls"),
          fpct |-> JStr(""), position |-> JNull])

rp_lee ==
    JObj([playername |-> JStr("R Lee"), teamname |-> JObj("$t" :> JStr("Hawks")),
          games |-> JStr("9"), era |-> JStr("2.10"), oavg |-> JStr(".250")])
rp_diaz ==
    JObj([playername |-> JStr("M Diaz"), teamname |-> JStr("Owls"),
          games |-> JStr("4"), era |-> JStr("-")])
rp_boyd ==
    JObj([playername |-> JStr("T Boyd"), teamname |-> JStr("Hawks"),
          games |-> JStr("9"), era |-> JStr("2.1")])
rp_diaz_hawks ==
    JObj([playername |-> JStr("M Diaz"), teamname |-> JStr("Hawks"),
          games |-> JStr("x"), era |-> JStr("3.75")])

Categories == {"batting", "fielding", "pitching"}
RecordPool(category) ==
    CASE category = "batting" -> {rb_smith, rb_jones, rb_lee, rb_smith_owls, rb_diaz}
      [] category = "fielding" -> {rf_cruz, rf_ford, rf_cruz_1b, rf_hale}
      [] category = "pitching" -> {rp_lee, rp_diaz, rp_boyd, rp_diaz_hawks}

NoSelection == [team |-> All, player |-> All, position |-> All, sort |-> "None"]

InitTable ==
    /\ t_cat \in Categories
    /\ t_records \in SeqsUpTo(RecordPool(t_cat), MaxRows)
    /\ t_pc = "records" /\ t_data = EmptyFrame /\ t_sel = NoSelection
    /\ t_filtered = EmptyFrame /\ t_again = EmptyFrame /\ t_exc = "none"
    /\ x_idle /\ s_idle

\* lines 219-221, for one category, from the extractor's records on
CleanData ==
    /\ t_pc = "records"
    /\ t_data' = Clean(t_cat, FrameOfRecords(t_records))
    /\ t_pc' = "cleaned"
    /\ UNCHANGED <<t_cat, t_records, t_sel, t_filtered, t_again, t_exc, x_vars, s_vars>>

\* lines 250-268: the user picks among the options, unless building them raises
Selectors ==
    /\ t_pc = "cleaned"
    /\ LET choices == SelectorChoices(t_cat, t_data)
       IN  \/ /\ choices.raised # "none"
              /\ t_exc' = choices.raised /\ t_pc' = "crashed" /\ t_sel' = t_sel
           \/ /\ choices.raised = "none"
              /\ t_sel' \in choices.value
              /\ t_exc' = t_exc /\ t_pc' = "selected"
    /\ UNCHANGED <<t_cat, t_records, t_data, t_filtered, t_again, x_vars, s_vars>>

\* lines 275-301
FilterDatasets ==
    /\ t_pc = "selected"
    /\ t_filtered' \in Filtered(t_cat, t_data, t_sel)
    /\ t_pc' = "filtered"
    /\ UNCHANGED <<t_cat, t_records, t_data, t_sel, t_again, t_exc, x_vars, s_vars>>

\* the same block, same selection, on the view it produced
FilterAgain ==
    /\ t_pc = "filtered"
    /\ t_again' \in Filtered(t_cat, t_filtered, t_sel)
    /\ t_pc' = "refiltered"
    /\ UNCHANGED <<t_cat, t_records, t_data, t_sel, t_filtered, t_exc, x_vars, s_vars>>

NextTable == CleanData \/ Selectors \/ FilterDatasets \/ FilterAgain
SpecTable == InitTable /\ [][NextTable]_vars

-----------------------------------------------------------------------------
(* Claims about cleaning, filtering and sorting (SpecTable) *)

NumericCols(category) ==
    CASE category = "batting" -> BattingNumeric
      [] category = "fielding" -> FieldingNumeric
      [] category = "pitching" -> PitchingNumeric
\* the column a source key ends up under
ColumnLabel(category, key) ==
    LET rename_map == CASE category = "batting" -> BattingRename
                        [] category = "fielding" -> FieldingRename
                        [] category = "pitching" -> PitchingRename
    IN  IF key \in DOMAIN rename_map THEN rename_map[key] ELSE Upper(key)

\* C10: after normalization every declared numeric column that is present holds,
\* in every row, a number or the missing marker: a source string that parses is
\* the number it denotes, one that does not parse is missing, and no string is
\* left in such a column.
C10_NumericColumnsHoldNumbersOrMissing ==
    t_pc \notin {"off", "records"}
        => /\ Len(t_data.rows) = Len(t_records)
           /\ \A col \in Range(NumericCols(t_cat)) \cap Range(t_data.columns) :
                 \A i \in DOMAIN t_data.rows :
                    LET c == t_data.rows[i][col]
                        src == t_records[i].fields
                    IN  /\ c.t \in {"num", "nan"}
                        /\ \A k \in DOMAIN src :
                              (ColumnLabel(t_cat, k) = col /\ src[k].t = "str")
                                 => IF src[k].v \in DOMAIN NumericLiterals
                                    THEN c = JNum(NumericLiterals[src[k].v])
                                    ELSE c = NaN

\* a batting table cleaned from a record with avg ".345" and one with avg "n/a"
C10_Witness ==
    /\ t_cat = "batting" /\ t_pc = "cleaned"
    /\ t_records = <<rb_smith, rb_smith_owls>>
    /\ t_data.rows[1]["AVG"] = JNum(345)
    /\ t_data.rows[2]["AVG"] = NaN

\* row r passes every filter that is not at its sentinel
Matches(category, s, r) ==
    /\ s.team # All => r["TEAM"] = s.team
    /\ s.player # All => r["PLAYER"] = s.player
    /\ (category # "pitching" /\ s.position # All) => r["P"] = s.position
\* the table's rows that pass, in the table's order
MatchingRows(category, df, s) == SelectSeq(df.rows, LAMBDA r : Matches(category, s, r))

Viewed == t_pc \in {"filtered", "refiltered"}

\* C6: with sortColumn = "None" the filtered view is exactly the rows of the
\* canonical table that equal every non-sentinel selection (TEAM, PLAYER and,
\* for batting and fielding, P), in their original order; with every selection
\* at its sentinel the view is the table itself.
C6_UnsortedViewIsMatchingSubsequence ==
    (Viewed /\ t_sel.sort = "None")
        => /\ t_filtered.columns = t_data.columns
           /\ t_filtered.rows = MatchingRows(t_cat, t_data, t_sel)
           /\ t_sel = NoSelection => t_filtered = t_data

\* a batting view filtered by team and position that kept some rows and dropped others
C6_Witness ==
    /\ Viewed /\ t_cat = "batting" /\ t_sel.sort = "None"
    /\ t_sel.team = JStr("Hawks") /\ t_sel.position = JStr("C") /\ t_sel.player = All
    /\ Len(t_data.rows) = 3 /\ Len(t_filtered.rows) = 1
    /\ t_data.rows[1]["TEAM"] = JStr("Owls")

\* the two row sequences hold the same rows, each as many times
SameRows(a, b) ==
    /\ Len(a) = Len(b)
    /\ \A r \in Range(a) \cup Range(b) :
          Cardinality({i \in DOMAIN a : a[i] = r}) = Cardinality({i \in DOMAIN b : b[i] = r})
\* the rows' numbers in column `by` never increase
NonIncreasing(rows, by) ==
    \A i, j \in DOMAIN rows :
       (i < j /\ rows[i][by].t = "num" /\ rows[j][by].t = "num")
          => rows[i][by].n >= rows[j][by].n
\* rows with equal numbers stand in the order they have in `before`
TiesKeepOrder(rows, before, by) ==
    \A r \in Range(rows) :
       r[by].t = "num"
          => SelectSeq(rows, LAMBDA q : q[by] = r[by])
             = SelectSeq(before, LAMBDA q : q[by] = r[by])
MissingLastInOrder(rows, before, by) ==
    /\ \A i, j \in DOMAIN rows :
          (rows[i][by].t = "num" /\ rows[j][by].t = "nan") => i < j
    /\ SelectSeq(rows, LAMBDA q : q[by].t = "nan")
       = SelectSeq(before, LAMBDA q : q[by].t = "nan")

\* C7 as claimed: with a sort column the rows left by the filters are in
\* non-increasing order of that column and rows with equal values keep the
\* relative order they had before the sort (stable tie-break).
C7_SortedDescendingStable ==
    (Viewed /\ t_sel.sort # "None")
        => LET before == MatchingRows(t_cat, t_data, t_sel)
           IN  /\ SameRows(t_filtered.rows, before)
               /\ NonIncreasing(t_filtered.rows, t_sel.sort)
               /\ TiesKeepOrder(t_filtered.rows, before, t_sel.sort)

\* C7 amended: with a sort column the rows left by the filters are reordered so
\* that the rows with a number come first in non-increasing order and the rows
\* with a missing value come last, in their pre-sort order; the relative order
\* of rows with equal numbers is not fixed.
C7_SortedDescendingMissingLast ==
    (Viewed /\ t_sel.sort # "None")
        => LET before == MatchingRows(t_cat, t_data, t_sel)
           IN  /\ t_filtered.columns = t_data.columns
               /\ SameRows(t_filtered.rows, before)
               /\ NonIncreasing(t_filtered.rows, t_sel.sort)
               /\ MissingLastInOrder(t_filtered.rows, before, t_sel.sort)

\* a batting view sorted by AVG whose rows changed places: the larger number
\* moved up in front, the missing value stayed last
C7_Witness ==
    /\ Viewed /\ t_cat = "batting" /\ t_sel.sort = "AVG" /\ t_sel.team = JStr("Owls")
    /\ t_records = <<rb_smith_owls, rb_lee, rb_jones>>
    /\ Len(t_filtered.rows) = 2
    /\ t_filtered.rows[1]["PLAYER"] = JStr("R Lee")
    /\ t_filtered.rows[2]["AVG"] = NaN

\* no two rows hold the same number in column `by`
NoTies(rows, by) ==
    \A i, j \in DOMAIN rows :
       (i # j /\ rows[i][by].t = "num" /\ rows[j][by].t = "num")
          => rows[i][by].n # rows[j][by].n

\* C8 as claimed: the filter/sort block applied to its own result, with the
\* same selection, returns that result, ties and missing values included.
C8_RefilterIsIdentity ==
    t_pc = "refiltered" => t_again = t_filtered

\* C8 amended: the block applied to its own result returns that result whenever
\* sortColumn is "None" or no two rows of the view hold the same number in the
\* sort column (rows with missing values included: they stay last, in order).
C8_RefilterIsIdentityWithoutTies ==
    (t_pc = "refiltered" /\ (t_sel.sort = "None" \/ NoTies(t_filtered.rows, t_sel.sort)))
        => t_again = t_filtered

\* a batting table of Owls whose first row has no number, filtered by team and
\* sorted by AVG (the number first, the two different rows without one last),
\* then filtered and sorted again
C8_Witness ==
    /\ t_pc = "refiltered" /\ t_cat = "batting"
    /\ t_sel.sort = "AVG" /\ t_sel.team = JStr("Owls")
    /\ t_data.rows[1]["AVG"] = NaN
    /\ Len(t_filtered.rows) = 3
    /\ t_filtered.rows[1]["AVG"].t = "num"
    /\ t_filtered.rows[2]["AVG"] = NaN /\ t_filtered.rows[3]["AVG"] = NaN
    /\ t_filtered.rows[2] # t_filtered.rows[3]
    /\ t_again = t_filtered

-----------------------------------------------------------------------------
(* Spec: the script, run from top to bottom on every Streamlit event *)

\* scenario D's season: two Hawks and an Owl
app_smith ==
    JObj([playername |-> JStr("J Smith"), teamname |-> JObj("$t" :> JStr("Hawks")),
          jersey |-> JStr("7"), avg |-> JStr(".345"), position |-> JStr("C")])
app_lee ==
    JObj([playername |-> JStr("R Lee"), teamname |-> JStr("Owls"),
          jersey |-> JStr("9"), avg |-> JStr(".300"), position |-> JStr("P")])
AppStats ==
    JObj([stats |-> JObj([batting |-> JObj([player |-> JList(<<app_lee, app_smith>>)]),
                          pitching |-> JObj([player |-> JList(<<pit_lee>>)])])])
\* scenario B's payload: a group holding one mapping, a group holding a list
AppFielding ==
    JObj([stats |-> JObj([position |->
            JList(<<JObj([position |-> JStr("C"), player |-> fld_ford]),
                    JObj([position |-> JStr("1B"), player |-> JList(<<fld_cruz>>)])>>)])])
Servers ==
    [stats : {AppStats, EmptyObj}, fielding : {AppFielding, EmptyObj}]

NoTables == [c \in Categories |-> EmptyFrame]
NoSelections == [c \in Categories |-> NoSelection]
Running == pc \notin {"closed", "idle", "crashed"}

InitApp ==
    /\ server \in Servers
    /\ pc = "closed" /\ trigger = "none" /\ fetches = <<>>
    /\ data = NoTables /\ sel = NoSelections /\ filtered = NoTables
    /\ doc = <<>> /\ pdf_built = FALSE /\ exc = "none" /\ runs = 0
    /\ x_idle /\ t_idle

\* what every event does: Streamlit starts the script over, and nothing the
\* last run computed is kept
Rerun(event) ==
    /\ trigger' = event
    /\ pc' = "load_batting"
    /\ fetches' = <<>> /\ data' = NoTables /\ filtered' = NoTables
    /\ doc' = <<>> /\ pdf_built' = FALSE /\ exc' = "none"
    /\ UNCHANGED <<server, x_vars, t_vars>>

\* the browser opens (or reloads) the page: a new session, widgets at their defaults
PageLoad ==
    /\ ~Running
    /\ sel' = NoSelections
    /\ runs' = 1
    /\ Rerun("page_load")

\* the user picks another option in one selectbox of the rendered page
ChangeSelection ==
    /\ pc = "idle" /\ runs < MaxRuns
    /\ runs' = runs + 1
    /\ \E c \in Categories, w \in {"team", "player", "position", "sort"} :
          LET choices == SelectorChoices(c, data[c])
          IN  /\ choices.raised = "none"
              /\ \E s \in choices.value :
                    /\ s[w] # sel[c][w]
                    /\ \A o \in {"team", "player", "position", "sort"} \ {w} :
                          s[o] = sel[c][o]
                    /\ sel' = [sel EXCEPT ![c] = s]
    /\ Rerun("widget_change")

\* the user clicks "Generate and Download PDF": the browser saves the bytes the
\* button was given by the run that rendered it, and the script runs again
ClickDownload ==
    /\ pc = "idle" /\ runs < MaxRuns
    /\ runs' = runs + 1
    /\ sel' = sel
    /\ Rerun("download_click")

Crash(e) ==
    /\ exc' = e /\ pc' = "crashed"

\* line 219
LoadBatting ==
    /\ pc = "load_batting"
    /\ \E net \in NetOutcomes :
          LET r == get_batting_stats(net, server.stats)
          IN  /\ fetches' = Append(fetches, [category |-> "batting", net |-> net,
                                             fetched |-> fetch(StatsEndpoint, net, server.stats)])
              /\ IF r.raised # "none"
                 THEN Crash(r.raised) /\ data' = data
                 ELSE /\ data' = [data EXCEPT !["batting"] = clean_batting_df(r.value)]
                      /\ pc' = "load_pitching" /\ exc' = exc
    /\ UNCHANGED <<trigger, server, sel, filtered, doc, pdf_built, runs, x_vars, t_vars>>

\* line 220
LoadPitching ==
    /\ pc = "load_pitching"
    /\ \E net \in NetOutcomes :
          LET r == get_pitching_stats(net, server.stats)
          IN  /\ fetches' = Append(fetches, [category |-> "pitching", net |-> net,
                                             fetched |-> fetch(StatsEndpoint, net, server.stats)])
              /\ IF r.raised # "none"
                 THEN Crash(r.raised) /\ data' = data
                 ELSE /\ data' = [data EXCEPT !["pitching"] = clean_pitching_df(r.value)]
                      /\ pc' = "load_fielding" /\ exc' = exc
    /\ UNCHANGED <<trigger, server, sel, filtered, doc, pdf_built, runs, x_vars, t_vars>>

\* line 221
LoadFielding ==
    /\ pc = "load_fielding"
    /\ \E net \in NetOutcomes :
          LET r == get_fielding_stats(net, server.fielding)
          IN  /\ fetches' = Append(fetches, [category |-> "fielding", net |-> net,
                                             fetched |-> fetch(FieldingEndpoint, net, server.fielding)])
              /\ IF r.raised # "none"
                 THEN Crash(r.raised) /\ data' = data
                 ELSE /\ data' = [data EXCEPT !["fielding"] = clean_fielding_df(r.value)]
                      /\ pc' = "selectors" /\ exc' = exc
    /\ UNCHANGED <<trigger, server, sel, filtered, doc, pdf_built, runs, x_vars, t_vars>>

\* the first exception the selectbox lines raise, batting, fielding, pitching
SelectorsRaise ==
    LET b == SelectorChoices("batting", data["batting"])
        f == SelectorChoices("fielding", data["fielding"])
        p == SelectorChoices("pitching", data["pitching"])
    IN  IF b.raised # "none" THEN b.raised
        ELSE IF f.raised # "none" THEN f.raised
        ELSE p.raised

\* lines 248-269: every selectbox returns the session's value for it, which is
\* one of its options (the default on a fresh session)
RunSelectors ==
    /\ pc = "selectors"
    /\ IF SelectorsRaise # "none"
       THEN Crash(SelectorsRaise)
       ELSE /\ \A c \in Categories : sel[c] \in SelectorChoices(c, data[c]).value
            /\ pc' = "filter" /\ exc' = exc
    /\ UNCHANGED <<trigger, server, fetches, data, sel, filtered, doc, pdf_built, runs, x_vars, t_vars>>

\* lines 275-301
RunFilters ==
    /\ pc = "filter"
    /\ \E b \in Filtered("batting", data["batting"], sel["batting"]),
          f \in Filtered("fielding", data["fielding"], sel["fielding"]),
          p \in Filtered("pitching", data["pitching"], sel["pitching"]) :
          filtered' = [batting |-> b, fielding |-> f, pitching |-> p]
    /\ pc' = "download_button"
    /\ UNCHANGED <<trigger, server, fetches, data, sel, doc, pdf_built, exc, runs, x_vars, t_vars>>

\* lines 307-320: the button's data argument is the call generate_pdf(...),
\* evaluated when the line runs
DownloadButton ==
    /\ pc = "download_button"
    /\ doc' = generate_pdf(filtered["batting"], filtered["fielding"], filtered["pitching"],
                           <<sel["batting"].team, sel["batting"].player, sel["batting"].sort>>,
                           <<sel["fielding"].team, sel["fielding"].player, sel["fielding"].sort>>,
                           <<sel["pitching"].team, sel["pitching"].player, sel["pitching"].sort>>,
                           sel["batting"].position, sel["fielding"].position)
    /\ pdf_built' = TRUE
    /\ pc' = "display"
    /\ UNCHANGED <<trigger, server, fetches, data, sel, filtered, exc, runs, x_vars, t_vars>>

\* lines 326-328
DisplayTables ==
    /\ pc = "display"
    /\ pc' = "idle"
    /\ UNCHANGED <<trigger, server, fetches, data, sel, filtered, doc, pdf_built, exc, runs, x_vars, t_vars>>

Next ==
    \/ PageLoad \/ ChangeSelection \/ ClickDownload
    \/ LoadBatting \/ LoadPitching \/ LoadFielding
    \/ RunSelectors \/ RunFilters \/ DownloadButton \/ DisplayTables
Spec == InitApp /\ [][Next]_vars

-----------------------------------------------------------------------------
(* Claims about the script as a whole (Spec) *)

\* C2: for each category, normalizing the empty record list (the extractor's
\* result when fetch returned an empty mapping) yields a table with no rows that
\* still has the canonical columns PLAYER and TEAM, and P for batting and
\* fielding, so the selectors that read those columns do not fail.
C2_EmptyTableHasCanonicalColumns ==
    /\ \A i \in DOMAIN fetches :
          (fetches[i].fetched.raised = "none" /\ fetches[i].fetched.value = EmptyObj)
             => LET df == data[fetches[i].category]
                IN  /\ df.rows = <<>>
                    /\ {"PLAYER", "TEAM"} \subseteq Range(df.columns)
                    /\ fetches[i].category # "pitching" => "P" \in Range(df.columns)
    /\ exc # "KeyError"

\* the caption the claim describes for a category under selection s
ClaimedCaption(category, s) ==
    "Filters: Team = " \o PyStr(s.team) \o ", Player = " \o PyStr(s.player)
    \o ", Sort = " \o s.sort
    \o (IF category \in {"batting", "fielding"} /\ s.position # All
        THEN ", Position = " \o PyStr(s.position) ELSE "")

\* C3: a section's caption is "Filters: Team = <team>, Player = <player>,
\* Sort = <sort>", with ", Position = <position>" appended only for Batting and
\* Fielding and only when a position other than "All" is selected; Batting
\* filtered to Hawks and sorted by AVG with no position selected is captioned
\* "Filters: Team = Hawks, Player = All, Sort = AVG".
C3_PositionCaptionedOnlyWhenSelected ==
    pdf_built
        => /\ doc[1].caption = ClaimedCaption("batting", sel["batting"])
           /\ doc[2].caption = ClaimedCaption("fielding", sel["fielding"])
           /\ doc[3].caption = ClaimedCaption("pitching", sel["pitching"])
           /\ sel["batting"] = [team |-> JStr("Hawks"), player |-> All,
                                position |-> All, sort |-> "AVG"]
                 => doc[1].caption = "Filters: Team = Hawks, Player = All, Sort = AVG"

\* C9: generate_pdf runs only in a script run the user's generate/download click
\* started, never in one a page load or a selection change started.
C9_PdfBuiltOnlyOnDownloadClick ==
    pdf_built => trigger = "download_click"

====
